---- MODULE Spec2Model ----
(***************************************************************************)
(* better-wait-until: the keep-alive monitor (betterAwait), the patched    *)
(* ctx.waitUntil of a KeepAlive Durable Object and the self-directed       *)
(* WebSocket it pings over.                                                *)
(*                                                                         *)
(* Time is counted in units of 10 seconds (the interval period): Date.now  *)
(* is the variable now, a Date option is a number of units since the epoch *)
(* and an unset option is None.                                            *)
(***************************************************************************)
EXTENDS Integers, Sequences, FiniteSets, TLC

\* ------------------------------------------------------------ constants

\* setInterval(..., 10000): one unit of time
TickPeriod == 1
\* 1000 * 60 * 15 ms, in units of 10 s
WARN_OFFSET == 90
\* 1000 * 60 * 60 ms, in units of 10 s
ERROR_OFFSET == 360
\* 1000 * 60 * 10 ms, in units of 10 s
ERROR_REPEAT == 60

\* ------------------------------------------------------------ bounds

\* Date.now() at the moment the operation is handed over
StartTime == 1000
\* the clock stops MaxTicks units after StartTime
MaxTicks == 64

\* the promise settles, the handshake ends and the connection drops within
\* MaxEventTicks units after StartTime, or never
MaxEventTicks == 6

MaxTime == StartTime + (MaxTicks * TickPeriod)

\* the clock of the long runs stops MaxTicksLong units after StartTime, past
\* the default error threshold of one hour
MaxTicksLong == 364

MaxTimeLong == StartTime + (MaxTicksLong * TickPeriod)

\* the clock of the runs with two operations stops MaxTicksTwo units after StartTime
MaxTicksTwo == 3

MaxTimeTwo == StartTime + (MaxTicksTwo * TickPeriod)

\* an option that was not supplied (undefined)
None == -1

\* the promises (background operations) a run may hand over
AllOps == {1, 2}
\* the operations the specification Spec tracks
MainOps == {1}

\* ctx.exports of the host: present with the class entry, present without
\* the class entry, or absent (compatibility flag enable_ctx_exports unset)
ExportsConfigs == {"ok", "noNamespace", "noExports"}

\* the Date options a caller supplies in this model
TimeoutChoices == {None, StartTime + (2 * TickPeriod), StartTime + (3 * TickPeriod)}
WarnAfterChoices == {None, (StartTime + (2 * TickPeriod)) - WARN_OFFSET}
ErrorAfterChoices == {None, StartTime - ERROR_OFFSET}

OptionChoices ==
    [timeout : TimeoutChoices,
     logWarningAfter : WarnAfterChoices,
     logErrorAfter : ErrorAfterChoices]

\* callers that leave logWarningAfter and logErrorAfter out
DefaultEscalationChoices ==
    [timeout : {None, StartTime + (2 * TickPeriod), StartTime + (100 * TickPeriod)},
     logWarningAfter : {None},
     logErrorAfter : {None}]

\* the options of the callers that track two operations at once
TwoOpsChoices ==
    [timeout : {None, StartTime + TickPeriod},
     logWarningAfter : {None},
     logErrorAfter : {None}]

\* options = {} (the default parameter of betterAwait)
NoOptions == [timeout |-> None, logWarningAfter |-> None, logErrorAfter |-> None]

\* ------------------------------------------------------------ the instance

\* strings are sequences of pieces, so that startsWith is a prefix test
StartsWith(str, prefix) ==
    /\ Len(str) >= Len(prefix)
    /\ SubSeq(str, 1, Len(prefix)) = prefix

\* WEBSOCKET_ENDPOINT.pathname
websocketPath == <<"/better-wait-until", "/websocket">>

\* url.pathname of the requests the instance receives: the keep-alive path,
\* paths that extend it, a path it extends and an unrelated one
Paths ==
    {websocketPath,
     websocketPath \o <<"2">>,
     websocketPath \o <<"/rooms">>,
     <<"/better-wait-until">>,
     <<"/api">>}

\* request.headers.get("Upgrade"); "null" when the header is missing
Upgrades == {"websocket", "h2c", "null"}

Requests == [path : Paths, upgrade : Upgrades]

\* the sockets of the instance: the keep-alive socket and one the class accepted
Connections == {"keepalive", "user"}

\* the prefix newWebSocketMessage looks for
PingTag == <<"better-wait-until-ping", " ">>

\* the data of the messages the instance receives
Messages ==
    {PingTag \o <<"1">>,
     PingTag,
     <<"better-wait-until-ping">>,
     <<"better-wait-until-ping", "-", "1">>,
     <<"hello ", "better-wait-until-ping", " ">>,
     <<"pong from server">>,
     <<>>}

\* instance.fetch and instance.webSocketMessage before the first patch: a
\* class may define either, both or none
HandlerConfigs == [fetch : BOOLEAN, webSocketMessage : BOOLEAN]

\* the instances of the class that live in one isolate; instance 1 is
\* constructed first
Instances == {1, 2}

\* nothing was delivered yet
NoDelivery ==
    [to |-> 0, kind |-> "none", request |-> <<>>, message |-> <<>>,
     acceptedOn |-> <<>>, receivers |-> <<>>]

\* no request and no message was handled yet
NoResponse == [status |-> 0, from |-> "none"]
NoFetch ==
    [request |-> <<>>, accepted |-> 0, acceptThrew |-> FALSE, passed |-> <<>>,
     response |-> NoResponse]
NoMessage == [ws |-> "none", message |-> <<>>, sent |-> <<>>, passed |-> <<>>]

\* ------------------------------------------------------------ the fetch-based variant

\* the period of the interval of the fetch-based betterWaitUntil: 60000 ms
FETCH_PERIOD == 6

\* how many periods of the fetch-based variant are explored
MaxFetchTicks == 3

MaxTimeFetch == StartTime + (MaxFetchTicks * FETCH_PERIOD)

\* the options of the fetch-based call: a timeout between the first and the
\* second tick, thresholds that the first tick has passed
FetchOptionChoices ==
    [timeout : {None, StartTime + FETCH_PERIOD + TickPeriod},
     logWarningAfter : {None, StartTime - WARN_OFFSET},
     logErrorAfter : {None, StartTime - ERROR_OFFSET}]

\* betterWaitUntil was not called
NoLegacy ==
    [called |-> FALSE, raised |-> FALSE, options |-> NoOptions, start |-> None,
     logWarningAt |-> None, logErrorAt |-> None,
     promiseState |-> "pending", closureFlag |-> FALSE, finishedAt |-> None,
     interval |-> "none", nextTickAt |-> None, count |-> 0,
     loggedWarning |-> FALSE, lastLoggedErrorAt |-> 0,
     intervalFinished |-> "none", hostGot |-> <<>>,
     fetches |-> <<>>, fetchErrors |-> 0, console |-> <<>>]

\* ------------------------------------------------------------ the agents

\* str.includes(part)
Includes(str, part) ==
    \E k \in 0..(Len(str) - Len(part)) : SubSeq(str, k + 1, k + Len(part)) = part

\* the literal that newBroadcast and onConnect look for in connection.url
KeepAliveMarker == <<"better-wait-until", "/websocket">>

\* the connections an agent can hold: the keep-alive socket, a client of the
\* agent, and a client whose address goes through a party and a room that are
\* named like the keep-alive path
AgentConnections == {"keepalive", "user", "room"}

\* connection.url; the one of the keep-alive socket is the request.url that
\* acceptKeepAliveWebSocket stored in its attachment
ConnectionUrl(c) ==
    CASE c = "keepalive" ->
            <<"https://fake", "/", "better-wait-until", "/websocket", "?className=", "C">>
      [] c = "user" -> <<"https://host", "/agents", "/c", "/main">>
      [] c = "room" -> <<"https://host", "/agents", "/", "better-wait-until", "/websocket">>

\* connection.id; every keep-alive attachment carries the same id
ConnectionId(i, c) == IF c = "keepalive" THEN <<0, c>> ELSE <<i, c>>

\* no broadcast and no onConnect call yet
NoBroadcast == [on |-> 0, without |-> {}, held |-> {}, reached |-> {}]
NoConnect == [on |-> 0, connection |-> "none", ran |-> FALSE]

\* no agent was constructed
NoAgent ==
    [own |-> [i \in Instances |-> <<>>], proto |-> <<>>,
     connections |-> [i \in Instances |-> {}],
     broadcast |-> NoBroadcast, connected |-> NoConnect]

\* the constructor of KeepAliveAgent has run for instance 1
FirstAgent == [NoAgent EXCEPT !.own[1] = <<1>>, !.proto = <<1>>]

\* ------------------------------------------------------------ state

VARIABLES
    now,               \* Date.now()
    exportsCfg,        \* the host's ctx.exports
    called,            \* per operation: "none", "waitUntil" (patched ctx.waitUntil) or "betterWaitUntil"
    raised,            \* per operation: the call threw to its caller
    hostGot,           \* per operation: what the original ctx.waitUntil was called with, in order
    options,           \* per operation: the options of the call
    start,             \* per operation: Date.now() when betterAwait ran, or None
    logWarningAt,      \* per operation
    logErrorAt,        \* per operation
    promiseState,      \* per operation: "pending", "fulfilled", "rejected"
    finalizer,         \* per operation: promise.finally(...) was attached
    closureFlag,       \* per operation
    wsPromise,         \* per operation: websocketPromise: "none", "pending", "resolved", "rejected"
    wsReactions,       \* per operation: the reactions registered on a pending websocketPromise, in order
    socket,            \* per operation: response.webSocket: "none", "open", "broken", "closed"
    interval,          \* per operation: "none", "active", "cleared"
    nextTickAt,        \* per operation: when the interval fires next
    count,             \* per operation
    loggedWarning,     \* per operation
    lastLoggedErrorAt, \* per operation
    intervalFinished,  \* per operation: "none", "pending", "resolved"
    upgrades,          \* per operation: upgrade requests fetched from the instance itself
    pings,             \* per operation: the counters of the pings sent, in order
    sendErrors,        \* per operation: errors caught by the interval callback
    closes,            \* per operation: calls of webSocket.close()
    console,           \* per operation: console.warn / console.error records, in order
    finishedAt,        \* per operation: now when the promise settled, or None
    openedAt,          \* per operation: now when websocketPromise resolved, or None
    closedAt,          \* per operation: now when the socket was closed, or None
    resolvedAt,        \* per operation: now when intervalFinished resolved, or None
    patches,           \* how many times constructorUpdate ran on the instance
    prePatch,          \* which handlers the instance had before the first patch
    fetched,           \* what the last call of instance.fetch did, or NoFetch
    received,          \* what the last call of instance.webSocketMessage did, or NoMessage
    own,               \* per instance: the instances whose newFetch / newWebSocketMessage
                       \* make up its own fetch / webSocketMessage property, outermost
                       \* first; <<>> before the instance is constructed
    proto,             \* the same for the property on the prototype of the class
    delivery,          \* what the last request or message delivered to an instance did
    agent,             \* the KeepAlive agents of one class: their broadcast properties,
                       \* their connections, the last broadcast and the last onConnect
    legacy             \* the operation tracked by the fetch-based betterWaitUntil

vars ==
    <<now, exportsCfg, called, raised, hostGot, options, start, logWarningAt, logErrorAt,
      promiseState, finalizer, closureFlag, wsPromise, wsReactions, socket,
      interval, nextTickAt, count, loggedWarning, lastLoggedErrorAt,
      intervalFinished, upgrades, pings, sendErrors, closes, console,
      finishedAt, openedAt, closedAt, resolvedAt,
      patches, prePatch, fetched, received, own, proto, delivery, agent, legacy>>

classVars == <<own, proto, delivery>>
variantVars == <<agent, legacy>>
instanceVars == <<exportsCfg, patches, prePatch, fetched, received, classVars, variantVars>>
callVars == <<called, raised, hostGot, options, start, logWarningAt, logErrorAt>>
promiseVars == <<promiseState, finalizer, closureFlag, finishedAt>>
channelVars ==
    <<wsPromise, wsReactions, socket, upgrades, pings, sendErrors, closes, openedAt, closedAt>>
timerVars == <<interval, nextTickAt, count, intervalFinished, resolvedAt>>
escalationVars == <<loggedWarning, lastLoggedErrorAt, console>>

InitMonitors ==
    /\ now = StartTime
    /\ exportsCfg \in ExportsConfigs
    /\ called = [o \in AllOps |-> "none"]
    /\ raised = [o \in AllOps |-> FALSE]
    /\ hostGot = [o \in AllOps |-> <<>>]
    /\ options = [o \in AllOps |-> NoOptions]
    /\ start = [o \in AllOps |-> None]
    /\ logWarningAt = [o \in AllOps |-> None]
    /\ logErrorAt = [o \in AllOps |-> None]
    /\ promiseState = [o \in AllOps |-> "pending"]
    /\ finalizer = [o \in AllOps |-> FALSE]
    /\ closureFlag = [o \in AllOps |-> FALSE]
    /\ wsPromise = [o \in AllOps |-> "none"]
    /\ wsReactions = [o \in AllOps |-> <<>>]
    /\ socket = [o \in AllOps |-> "none"]
    /\ interval = [o \in AllOps |-> "none"]
    /\ nextTickAt = [o \in AllOps |-> None]
    /\ count = [o \in AllOps |-> 0]
    /\ loggedWarning = [o \in AllOps |-> FALSE]
    /\ lastLoggedErrorAt = [o \in AllOps |-> 0]
    /\ intervalFinished = [o \in AllOps |-> "none"]
    /\ upgrades = [o \in AllOps |-> 0]
    /\ pings = [o \in AllOps |-> <<>>]
    /\ sendErrors = [o \in AllOps |-> 0]
    /\ closes = [o \in AllOps |-> 0]
    /\ console = [o \in AllOps |-> <<>>]
    /\ finishedAt = [o \in AllOps |-> None]
    /\ openedAt = [o \in AllOps |-> None]
    /\ closedAt = [o \in AllOps |-> None]
    /\ resolvedAt = [o \in AllOps |-> None]

\* the constructor of KeepAliveDurableObject has patched the instance once;
\* nothing was received yet
InitInstance(handlers) ==
    /\ patches = 1
    /\ prePatch \in handlers
    /\ fetched = NoFetch
    /\ received = NoMessage
    /\ own = [i \in Instances |-> IF i = 1 THEN <<1>> ELSE <<>>]
    /\ proto = <<1>>
    /\ delivery = NoDelivery

\* no agent and no operation of the fetch-based variant
InitVariants == agent = NoAgent /\ legacy = NoLegacy

\* an instance of a class that defines fetch and webSocketMessage
Init ==
    /\ InitMonitors
    /\ InitInstance({[fetch |-> TRUE, webSocketMessage |-> TRUE]})
    /\ InitVariants

\* an instance of any class
InitPatch == InitMonitors /\ InitInstance(HandlerConfigs) /\ InitVariants

\* an agent: Agent defines fetch and webSocketMessage
InitAgents ==
    /\ InitMonitors
    /\ InitInstance({[fetch |-> TRUE, webSocketMessage |-> TRUE]})
    /\ agent = FirstAgent
    /\ legacy = NoLegacy

\* ------------------------------------------------------------ betterAwait

\* exportsNs and exportsNs[className] are both there
ExportsResolved_NamespaceUnchecked(cfg) == cfg # "noExports"

ExportsResolved(cfg) == cfg = "ok"

\* (options.logWarningAfter?.getTime() ?? Date.now()) + 1000 * 60 * 15
LogWarningAt_DefaultNoOffset(logWarningAfter, t) ==
    IF logWarningAfter = None THEN t ELSE logWarningAfter + WARN_OFFSET

LogWarningAt(logWarningAfter, t) ==
    (IF logWarningAfter = None THEN t ELSE logWarningAfter) + WARN_OFFSET

\* (options.logErrorAfter?.getTime() ?? Date.now()) + 1000 * 60 * 60
LogErrorAt(logErrorAfter, t) ==
    (IF logErrorAfter = None THEN t ELSE logErrorAfter) + ERROR_OFFSET

\* betterAwait past its two throws: the thresholds, the upgrade request to the
\* instance itself, the finally hook on the promise and the interval
Track_UpgradeTwice(o, opts) ==
    /\ options' = [options EXCEPT ![o] = opts]
    /\ start' = [start EXCEPT ![o] = now]
    /\ logWarningAt' = [logWarningAt EXCEPT ![o] = LogWarningAt(opts.logWarningAfter, now)]
    /\ logErrorAt' = [logErrorAt EXCEPT ![o] = LogErrorAt(opts.logErrorAfter, now)]
    /\ wsPromise' = [wsPromise EXCEPT ![o] = "pending"]
    /\ upgrades' = [upgrades EXCEPT ![o] = @ + 2]
    /\ finalizer' = [finalizer EXCEPT ![o] = TRUE]
    /\ interval' = [interval EXCEPT ![o] = "active"]
    /\ nextTickAt' = [nextTickAt EXCEPT ![o] = now + TickPeriod]
    /\ intervalFinished' = [intervalFinished EXCEPT ![o] = "pending"]
    /\ UNCHANGED <<promiseState, closureFlag, finishedAt, wsReactions, socket, pings,
                   sendErrors, closes, openedAt, closedAt, count, resolvedAt,
                   escalationVars>>

Track(o, opts) ==
    /\ options' = [options EXCEPT ![o] = opts]
    /\ start' = [start EXCEPT ![o] = now]
    /\ logWarningAt' = [logWarningAt EXCEPT ![o] = LogWarningAt(opts.logWarningAfter, now)]
    /\ logErrorAt' = [logErrorAt EXCEPT ![o] = LogErrorAt(opts.logErrorAfter, now)]
    /\ wsPromise' = [wsPromise EXCEPT ![o] = "pending"]
    /\ upgrades' = [upgrades EXCEPT ![o] = @ + 1]
    /\ finalizer' = [finalizer EXCEPT ![o] = TRUE]
    /\ interval' = [interval EXCEPT ![o] = "active"]
    /\ nextTickAt' = [nextTickAt EXCEPT ![o] = now + TickPeriod]
    /\ intervalFinished' = [intervalFinished EXCEPT ![o] = "pending"]
    /\ UNCHANGED <<promiseState, closureFlag, finishedAt, wsReactions, socket, pings,
                   sendErrors, closes, openedAt, closedAt, count, resolvedAt,
                   escalationVars>>

\* betterAwait leaving by one of its two throws: nothing was set up yet
TrackAborted(o) ==
    UNCHANGED <<options, start, logWarningAt, logErrorAt, promiseVars, channelVars,
                timerVars, escalationVars>>

\* what newWaitUntil passes to the original ctx.waitUntil: the promise
\* betterAwait returned
NewWaitUntilArgument == "intervalFinished"

\* ctx.waitUntil(promise) on an instance constructorUpdate has patched once
WaitUntilCall(o) ==
    /\ patches = 1
    /\ called[o] = "none"
    /\ called' = [called EXCEPT ![o] = "waitUntil"]
    /\ UNCHANGED <<now, instanceVars>>
    /\ IF ExportsResolved(exportsCfg)
       THEN /\ Track(o, NoOptions)
            /\ hostGot' = [hostGot EXCEPT ![o] = Append(@, NewWaitUntilArgument)]
            /\ UNCHANGED raised
       ELSE /\ TrackAborted(o)
            /\ raised' = [raised EXCEPT ![o] = TRUE]
            /\ UNCHANGED hostGot

\* betterWaitUntil(durableObject, promise, options): void betterAwait(...)
BetterWaitUntilCall(o, opts) ==
    /\ called[o] = "none"
    /\ called' = [called EXCEPT ![o] = "betterWaitUntil"]
    /\ UNCHANGED <<now, instanceVars, hostGot>>
    /\ IF ExportsResolved(exportsCfg)
       THEN /\ Track(o, opts)
            /\ UNCHANGED raised
       ELSE /\ TrackAborted(o)
            /\ raised' = [raised EXCEPT ![o] = TRUE]

\* ------------------------------------------------------------ the patched handlers

\* the responses a request can end in
SwitchingProtocols == [status |-> 101, from |-> "acceptKeepAliveWebSocket"]
KeepAwakeError == [status |-> 500, from |-> "acceptKeepAliveWebSocket"]
NotFound == [status |-> 404, from |-> "newFetch"]
UserResponse == [status |-> 200, from |-> "oldFetch"]
Undefined == [status |-> 0, from |-> "undefined"]

\* !url.pathname.startsWith(websocketPath) ||
\* request.headers.get("Upgrade") !== "websocket": return null
IsKeepAliveRequest_PathOnly(request) == StartsWith(request.path, websocketPath)

IsKeepAliveRequest(request) ==
    StartsWith(request.path, websocketPath) /\ request.upgrade = "websocket"

\* acceptKeepAliveWebSocket: null, or the 101 response after
\* state.acceptWebSocket(server, ["keepalive"]), or the 500 response when that threw
AcceptKeepAliveWebSocket_ErrorAsNull(request, acceptThrows) ==
    IF IsKeepAliveRequest(request) /\ ~acceptThrows
    THEN [request |-> request, accepted |-> 1, acceptThrew |-> FALSE, passed |-> <<>>,
          response |-> SwitchingProtocols]
    ELSE [request |-> request, accepted |-> 0,
          acceptThrew |-> IsKeepAliveRequest(request), passed |-> <<>>,
          response |-> Undefined]

AcceptKeepAliveWebSocket(request, acceptThrows) ==
    IF ~IsKeepAliveRequest(request)
    THEN [request |-> request, accepted |-> 0, acceptThrew |-> FALSE, passed |-> <<>>,
          response |-> Undefined]
    ELSE IF acceptThrows
         THEN [request |-> request, accepted |-> 0, acceptThrew |-> TRUE, passed |-> <<>>,
               response |-> KeepAwakeError]
         ELSE [request |-> request, accepted |-> 1, acceptThrew |-> FALSE, passed |-> <<>>,
               response |-> SwitchingProtocols]

\* instance.fetch after k patches: k = 0 is the handler of the class (or
\* undefined), k > 0 is the newFetch whose oldFetch is the handler after k - 1
\* patches; oldFetch?.call(instance, request) ?? new Response("Not found")
RECURSIVE FetchAfter(_, _, _)
FetchAfter(k, request, acceptThrows) ==
    IF k = 0
    THEN IF prePatch.fetch
         THEN [request |-> request, accepted |-> 0, acceptThrew |-> FALSE,
               passed |-> <<request>>, response |-> UserResponse]
         ELSE [request |-> request, accepted |-> 0, acceptThrew |-> FALSE, passed |-> <<>>,
               response |-> Undefined]
    ELSE LET keepAliveResponse == AcceptKeepAliveWebSocket(request, acceptThrows)
             old == FetchAfter(k - 1, request, acceptThrows)
             after == [old EXCEPT !.acceptThrew = @ \/ keepAliveResponse.acceptThrew]
         IN IF keepAliveResponse.response # Undefined
            THEN keepAliveResponse
            ELSE IF after.response = Undefined
                 THEN [after EXCEPT !.response = NotFound]
                 ELSE after

\* the acknowledgement newWebSocketMessage sends
Pong == <<"pong from server">>

\* message.startsWith("better-wait-until-ping ")
IsPing_Never(message) == FALSE

IsPing(message) == StartsWith(message, PingTag)

\* instance.webSocketMessage after k patches: k = 0 is the handler of the
\* class (or undefined), k > 0 is the newWebSocketMessage over k - 1 patches
RECURSIVE WebSocketMessageAfter(_, _, _)
WebSocketMessageAfter(k, ws, message) ==
    IF k = 0
    THEN [ws |-> ws, message |-> message, sent |-> <<>>,
          passed |-> IF prePatch.webSocketMessage
                     THEN <<[ws |-> ws, message |-> message]>>
                     ELSE <<>>]
    ELSE IF IsPing(message)
         THEN [ws |-> ws, message |-> message,
               sent |-> <<[ws |-> ws, data |-> Pong]>>, passed |-> <<>>]
         ELSE WebSocketMessageAfter(k - 1, ws, message)

\* the instance receives a request: instance.fetch(request)
Fetch(request, acceptThrows) ==
    /\ fetched' = FetchAfter(patches, request, acceptThrows)
    /\ UNCHANGED <<now, variantVars, exportsCfg, patches, prePatch, received, classVars, callVars,
                   promiseVars, channelVars, timerVars, escalationVars>>

\* a socket of the instance receives a message: instance.webSocketMessage(ws, message)
WebSocketMessage(ws, message) ==
    /\ received' = WebSocketMessageAfter(patches, ws, message)
    /\ UNCHANGED <<now, variantVars, exportsCfg, patches, prePatch, fetched, classVars, callVars,
                   promiseVars, channelVars, timerVars, escalationVars>>

\* const oldFetch = instance.fetch (the own property, else the one of the
\* prototype); instance.fetch = newFetch;
\* instance.constructor.prototype.fetch = newFetch; webSocketMessage alike
PatchHandlers(i) ==
    LET old == IF own[i] # <<>> THEN own[i] ELSE proto
        new == <<i>> \o old
    IN /\ own' = [own EXCEPT ![i] = new]
       /\ proto' = new

\* constructorUpdate(instance) on the instance the constructor has patched:
\* the new handlers wrap the ones that are there, nothing marks the instance
ConstructorUpdate ==
    /\ patches = 1
    /\ patches' = 2
    /\ PatchHandlers(1)
    /\ UNCHANGED <<now, variantVars, exportsCfg, prePatch, fetched, received, delivery, callVars,
                   promiseVars, channelVars, timerVars, escalationVars>>

\* new C(state, env) for a further instance of the class: the constructor of
\* KeepAliveDurableObject runs constructorUpdate(this)
Construct(i) ==
    /\ own[i] = <<>>
    /\ PatchHandlers(i)
    /\ UNCHANGED <<now, variantVars, exportsCfg, patches, prePatch, fetched, received, delivery,
                   callVars, promiseVars, channelVars, timerVars, escalationVars>>

\* a fetch property made of the newFetch closures of chain: each newFetch
\* accepts on the ctx of the instance it closes over, or calls its oldFetch
\* with that instance as receiver; a newFetch is an arrow function and takes
\* no notice of the receiver, the method of the class does
RECURSIVE FetchVia(_, _, _)
FetchVia(chain, request, acceptThrows) ==
    LET instance == Head(chain)
    IN IF IsKeepAliveRequest(request)
       THEN [acceptedOn |-> IF acceptThrows THEN <<>> ELSE <<instance>>,
             receivers |-> <<>>]
       ELSE IF Tail(chain) = <<>>
            THEN [acceptedOn |-> <<>>,
                  receivers |-> IF prePatch.fetch THEN <<instance>> ELSE <<>>]
            ELSE FetchVia(Tail(chain), request, acceptThrows)

\* the same for webSocketMessage: a ping is answered by the outermost
\* newWebSocketMessage, anything else goes down to the method of the class
RECURSIVE MessageVia(_, _)
MessageVia(chain, message) ==
    LET instance == Head(chain)
    IN IF IsPing(message)
       THEN [acceptedOn |-> <<>>, receivers |-> <<>>]
       ELSE IF Tail(chain) = <<>>
            THEN [acceptedOn |-> <<>>,
                  receivers |-> IF prePatch.webSocketMessage THEN <<instance>> ELSE <<>>]
            ELSE MessageVia(Tail(chain), message)

\* the runtime delivers a request to instance i: i.fetch(request)
DeliverFetch(i, request, acceptThrows) ==
    /\ own[i] # <<>>
    /\ delivery' =
          LET d == FetchVia(own[i], request, acceptThrows)
          IN [to |-> i, kind |-> "fetch", request |-> request, message |-> <<>>,
              acceptedOn |-> d.acceptedOn, receivers |-> d.receivers]
    /\ UNCHANGED <<now, variantVars, exportsCfg, patches, prePatch, fetched, received, own, proto,
                   callVars, promiseVars, channelVars, timerVars, escalationVars>>

\* the runtime delivers a message of a socket of instance i:
\* i.webSocketMessage(ws, message)
DeliverMessage(i, message) ==
    /\ own[i] # <<>>
    /\ delivery' =
          LET d == MessageVia(own[i], message)
          IN [to |-> i, kind |-> "message", request |-> <<>>, message |-> message,
              acceptedOn |-> d.acceptedOn, receivers |-> d.receivers]
    /\ UNCHANGED <<now, variantVars, exportsCfg, patches, prePatch, fetched, received, own, proto,
                   callVars, promiseVars, channelVars, timerVars, escalationVars>>

\* agentsConstructorUpdate(instance): const oldBroadcast = instance.broadcast
\* (the own property, else the one of the prototype of the class, else the
\* method of Agent); instance.broadcast = newBroadcast;
\* instance.constructor.prototype.broadcast = newBroadcast
AgentsConstructorUpdate(i) ==
    LET old == IF agent.own[i] # <<>> THEN agent.own[i] ELSE agent.proto
        new == <<i>> \o old
    IN [agent EXCEPT !.own[i] = new, !.proto = new]

\* new C(ctx, env) for a further agent of the class: the constructor of
\* KeepAliveAgent runs constructorUpdate(this, ...) and agentsConstructorUpdate(this)
ConstructAgent(i) ==
    /\ own[i] = <<>>
    /\ agent.own[i] = <<>>
    /\ PatchHandlers(i)
    /\ agent' = AgentsConstructorUpdate(i)
    /\ UNCHANGED <<now, legacy, exportsCfg, patches, prePatch, fetched, received, delivery,
                   callVars, promiseVars, channelVars, timerVars, escalationVars>>

\* onConnect(connection, ctx) of KeepAliveAgent: super.onConnect runs unless
\* connection.url includes the literal
SuperOnConnectRuns(c) == ~Includes(ConnectionUrl(c), KeepAliveMarker)

\* agent i accepts a connection; one that the agent framework accepts is
\* handed to onConnect, the keep-alive socket is accepted by
\* acceptKeepAliveWebSocket on the ctx
AcceptConnection(i, c) ==
    /\ agent.own[i] # <<>>
    /\ c \notin agent.connections[i]
    /\ agent' =
          [agent EXCEPT
              !.connections[i] = @ \cup {c},
              !.connected = IF c = "keepalive" THEN @
                            ELSE [on |-> i, connection |-> c, ran |-> SuperOnConnectRuns(c)]]
    /\ UNCHANGED <<now, legacy, exportsCfg, patches, prePatch, fetched, received, classVars,
                   callVars, promiseVars, channelVars, timerVars, escalationVars>>

\* instance.onConnect(connection, ctx) for a connection the agent holds
OnConnect(i, c) ==
    /\ c \in agent.connections[i]
    /\ agent' = [agent EXCEPT
                    !.connected = [on |-> i, connection |-> c, ran |-> SuperOnConnectRuns(c)]]
    /\ UNCHANGED <<now, legacy, exportsCfg, patches, prePatch, fetched, received, classVars,
                   callVars, promiseVars, channelVars, timerVars, escalationVars>>

\* a broadcast property made of the newBroadcast closures of chain: each
\* newBroadcast adds the ids of the marked connections of the instance it
\* closes over and calls its oldBroadcast with that instance as receiver; a
\* newBroadcast is an arrow function and takes no notice of the receiver, the
\* broadcast of Agent sends to the connections of its receiver that are not
\* in without
RECURSIVE BroadcastVia(_, _)
BroadcastVia(chain, without) ==
    LET instance == Head(chain)
        skipped == {ConnectionId(instance, c) : c \in
                       {d \in agent.connections[instance] :
                            Includes(ConnectionUrl(d), KeepAliveMarker)}}
    IN IF Tail(chain) = <<>>
       THEN {<<instance, c>> : c \in
                {d \in agent.connections[instance] :
                     ConnectionId(instance, d) \notin (without \cup skipped)}}
       ELSE BroadcastVia(Tail(chain), without \cup skipped)

\* the agent calls this.broadcast(msg, without)
Broadcast(i, without) ==
    /\ agent.own[i] # <<>>
    /\ agent' = [agent EXCEPT
                    !.broadcast = [on |-> i, without |-> without,
                                   held |-> agent.connections[i],
                                   reached |-> BroadcastVia(agent.own[i], without)]]
    /\ UNCHANGED <<now, legacy, exportsCfg, patches, prePatch, fetched, received, classVars,
                   callVars, promiseVars, channelVars, timerVars, escalationVars>>

\* betterWaitUntil(durableObject, promise, options) of the fetch-based
\* variant, for a promise in state settled: it throws before it starts
\* anything when the namespace does not resolve; else it attaches the flag
\* reaction, starts the interval and hands promise.finally(clearInterval) and
\* intervalFinished to ctx.waitUntil. The reactions of a promise that is
\* settled already run before any timer does
FetchVariantCall(opts, settled) ==
    /\ ~legacy.called
    /\ legacy' =
          IF ~ExportsResolved(exportsCfg)
          THEN [legacy EXCEPT !.called = TRUE, !.raised = TRUE]
          ELSE [legacy EXCEPT
                   !.called = TRUE,
                   !.options = opts,
                   !.start = now,
                   !.logWarningAt = LogWarningAt(opts.logWarningAfter, now),
                   !.logErrorAt = LogErrorAt(opts.logErrorAfter, now),
                   !.promiseState = settled,
                   !.closureFlag = settled # "pending",
                   !.finishedAt = IF settled # "pending" THEN now ELSE None,
                   !.interval = IF settled # "pending" THEN "cleared" ELSE "active",
                   !.nextTickAt = now + FETCH_PERIOD,
                   !.intervalFinished = "pending",
                   !.hostGot = <<"promise.finally", "intervalFinished">>]
    /\ UNCHANGED <<now, agent, exportsCfg, patches, prePatch, fetched, received, classVars,
                   callVars, promiseVars, channelVars, timerVars, escalationVars>>

\* the promise settles: () => closureFlag = true, then
\* () => { clearInterval(interval); ... }
FetchVariantSettle(outcome) ==
    /\ legacy.called /\ ~legacy.raised
    /\ legacy.promiseState = "pending"
    /\ legacy' = [legacy EXCEPT
                     !.promiseState = outcome,
                     !.closureFlag = TRUE,
                     !.finishedAt = now,
                     !.interval = "cleared"]
    /\ UNCHANGED <<now, agent, exportsCfg, patches, prePatch, fetched, received, classVars,
                   callVars, promiseVars, channelVars, timerVars, escalationVars>>

\* the interval of the fetch-based variant fires
FetchVariantTickDue == legacy.interval = "active" /\ now >= legacy.nextTickAt

\* one run of the callback of the fetch-based variant; fetchOk tells whether
\* the no-op fetch and reading its body come back without an error
FetchVariantTick(fetchOk) ==
    /\ FetchVariantTickDue
    /\ LET l == [legacy EXCEPT !.count = @ + 1, !.nextTickAt = @ + FETCH_PERIOD]
           warn == ~l.loggedWarning /\ now > l.logWarningAt
           err == now > l.logErrorAt /\ now - l.lastLoggedErrorAt > ERROR_REPEAT
           logged == l.console
                       \o (IF warn THEN <<[kind |-> "warning", at |-> now]>> ELSE <<>>)
                       \o (IF err THEN <<[kind |-> "error", at |-> now]>> ELSE <<>>)
           e == [l EXCEPT !.loggedWarning = @ \/ warn,
                          !.lastLoggedErrorAt = IF err THEN now ELSE @,
                          !.console = logged]
       IN legacy' =
            IF l.closureFlag
            THEN [l EXCEPT !.interval = "cleared", !.intervalFinished = "resolved"]
            ELSE IF e.options.timeout # None /\ now > e.options.timeout
                 THEN [e EXCEPT !.console = @ \o <<[kind |-> "timeout", at |-> now]>>,
                                !.interval = "cleared",
                                !.intervalFinished = "resolved"]
                 ELSE [e EXCEPT !.fetches = Append(@, now),
                                !.fetchErrors = IF fetchOk THEN @ ELSE @ + 1]
    /\ UNCHANGED <<now, agent, exportsCfg, patches, prePatch, fetched, received, classVars,
                   callVars, promiseVars, channelVars, timerVars, escalationVars>>

\* time passes for the fetch-based variant
FetchVariantAdvance ==
    /\ legacy.called /\ ~legacy.raised
    /\ ~FetchVariantTickDue
    /\ now < MaxTimeFetch
    /\ now' = now + TickPeriod
    /\ UNCHANGED <<instanceVars, callVars, promiseVars, channelVars, timerVars,
                   escalationVars>>

\* betterAwait past its throws for each operation of S at once
TrackEach(S, opts) ==
    /\ options' = [o \in AllOps |-> IF o \in S THEN opts ELSE options[o]]
    /\ start' = [o \in AllOps |-> IF o \in S THEN now ELSE start[o]]
    /\ logWarningAt' = [o \in AllOps |->
            IF o \in S THEN LogWarningAt(opts.logWarningAfter, now) ELSE logWarningAt[o]]
    /\ logErrorAt' = [o \in AllOps |->
            IF o \in S THEN LogErrorAt(opts.logErrorAfter, now) ELSE logErrorAt[o]]
    /\ wsPromise' = [o \in AllOps |-> IF o \in S THEN "pending" ELSE wsPromise[o]]
    /\ upgrades' = [o \in AllOps |-> IF o \in S THEN upgrades[o] + 1 ELSE upgrades[o]]
    /\ finalizer' = [o \in AllOps |-> IF o \in S THEN TRUE ELSE finalizer[o]]
    /\ interval' = [o \in AllOps |-> IF o \in S THEN "active" ELSE interval[o]]
    /\ nextTickAt' = [o \in AllOps |-> IF o \in S THEN now + TickPeriod ELSE nextTickAt[o]]
    /\ intervalFinished' = [o \in AllOps |->
            IF o \in S THEN "pending" ELSE intervalFinished[o]]
    /\ UNCHANGED <<promiseState, closureFlag, finishedAt, wsReactions, socket, pings,
                   sendErrors, closes, openedAt, closedAt, count, resolvedAt,
                   escalationVars>>

\* ctx.waitUntil(promise) on an instance constructorUpdate has patched twice:
\* the outer newWaitUntil hands betterAwait(instance, promise) to the inner
\* newWaitUntil, which hands betterAwait(instance, that) to the original.
\* Operation 1 is the caller's promise, operation 2 the promise the first
\* betterAwait returned
WaitUntilCallRepatched ==
    /\ patches = 2
    /\ \A o \in {1, 2} : called[o] = "none"
    /\ UNCHANGED <<now, instanceVars>>
    /\ IF ExportsResolved(exportsCfg)
       THEN /\ called' = [o \in AllOps |-> IF o \in {1, 2} THEN "waitUntil" ELSE called[o]]
            /\ TrackEach({1, 2}, NoOptions)
            /\ hostGot' = [hostGot EXCEPT ![1] = Append(@, NewWaitUntilArgument)]
            /\ UNCHANGED raised
       ELSE /\ called' = [called EXCEPT ![1] = "waitUntil"]
            /\ TrackAborted(1)
            /\ raised' = [raised EXCEPT ![1] = TRUE]
            /\ UNCHANGED hostGot

\* ------------------------------------------------------------ the promise

\* promise.finally(() => closureFlag = true): the hook runs on fulfilment and
\* on rejection, when it was attached
FlagSetOnSettle_Never(o, outcome) == FALSE

FlagSetOnSettle_ThenOnly(o, outcome) == finalizer[o] /\ outcome = "fulfilled"

FlagSetOnSettle(o, outcome) == finalizer[o]

\* .then(() => websocketPromise.then(response => response.webSocket.close()))
\* behind the finally: it runs on fulfilment only, a rejection passes it by
ClosesOnSettle_Never(o, outcome) == FALSE

ClosesOnSettle(o, outcome) == finalizer[o] /\ outcome = "fulfilled"

\* the tracked promise settles and the reactions betterAwait chained on it run
Settle(o, outcome) ==
    /\ called[o] # "none"
    /\ promiseState[o] = "pending"
    /\ promiseState' = [promiseState EXCEPT ![o] = outcome]
    /\ finishedAt' = [finishedAt EXCEPT ![o] = now]
    /\ closureFlag' = [closureFlag EXCEPT ![o] = @ \/ FlagSetOnSettle(o, outcome)]
    /\ IF ClosesOnSettle(o, outcome)
       THEN CASE wsPromise[o] = "resolved" ->
                 /\ socket' = [socket EXCEPT ![o] = "closed"]
                 /\ closes' = [closes EXCEPT ![o] = @ + 1]
                 /\ closedAt' = [closedAt EXCEPT ![o] = now]
                 /\ UNCHANGED wsReactions
              [] wsPromise[o] = "pending" ->
                 /\ wsReactions' = [wsReactions EXCEPT ![o] = Append(@, "close")]
                 /\ UNCHANGED <<socket, closes, closedAt>>
              [] OTHER ->
                 UNCHANGED <<wsReactions, socket, closes, closedAt>>
       ELSE UNCHANGED <<wsReactions, socket, closes, closedAt>>
    /\ UNCHANGED <<now, instanceVars, callVars, finalizer, wsPromise, upgrades, pings,
                   sendErrors, openedAt, timerVars, escalationVars>>

\* ------------------------------------------------------------ the channel

\* the reactions on websocketPromise run in the order they were registered:
\* a suspended interval callback sends "better-wait-until-ping " + count (or
\* catches the error of a send that throws, or of a rejected await), the
\* close reaction closes the socket and is skipped on a rejection
RECURSIVE RunReactions(_, _, _, _)
RunReactions(rs, ok, n, st) ==
    IF rs = <<>> THEN st
    ELSE LET r == Head(rs)
             next ==
                 IF r = "tick"
                 THEN IF ok /\ st.socket = "open"
                      THEN [st EXCEPT !.pings = Append(@, n)]
                      ELSE [st EXCEPT !.sendErrors = @ + 1]
                 ELSE IF ok
                      THEN [st EXCEPT !.socket = "closed", !.closes = @ + 1, !.closedAt = now]
                      ELSE st
         IN RunReactions(Tail(rs), ok, n, next)

ChannelState(o) ==
    [socket |-> socket[o], pings |-> pings[o], sendErrors |-> sendErrors[o],
     closes |-> closes[o], closedAt |-> closedAt[o]]

SettleWebsocketPromise(o, ok) ==
    LET st == RunReactions(wsReactions[o], ok, count[o],
                           [ChannelState(o) EXCEPT !.socket = IF ok THEN "open" ELSE @])
    IN /\ wsPromise[o] = "pending"
       /\ wsPromise' = [wsPromise EXCEPT ![o] = IF ok THEN "resolved" ELSE "rejected"]
       /\ wsReactions' = [wsReactions EXCEPT ![o] = <<>>]
       /\ socket' = [socket EXCEPT ![o] = st.socket]
       /\ pings' = [pings EXCEPT ![o] = st.pings]
       /\ sendErrors' = [sendErrors EXCEPT ![o] = st.sendErrors]
       /\ closes' = [closes EXCEPT ![o] = st.closes]
       /\ closedAt' = [closedAt EXCEPT ![o] = st.closedAt]
       /\ openedAt' = [openedAt EXCEPT ![o] = IF ok THEN now ELSE @]
       /\ UNCHANGED <<now, instanceVars, callVars, promiseVars, upgrades, timerVars,
                      escalationVars>>

\* the upgrade response arrives with a webSocket: accept() and resolve(response)
HandshakeOk(o) == SettleWebsocketPromise(o, TRUE)

\* the fetch fails or its response carries no webSocket: reject(err)
HandshakeFail(o) == SettleWebsocketPromise(o, FALSE)

\* the connection drops: a later send throws
SocketError(o) ==
    /\ socket[o] = "open"
    /\ socket' = [socket EXCEPT ![o] = "broken"]
    /\ UNCHANGED <<now, instanceVars, callVars, promiseVars, wsPromise, wsReactions,
                   upgrades, pings, sendErrors, closes, openedAt, closedAt, timerVars,
                   escalationVars>>

\* ------------------------------------------------------------ the interval

\* const isPromiseFinished = !!closureFlag
IsPromiseFinished_Never(o) == FALSE

IsPromiseFinished_OrSendFailed(o) == closureFlag[o] \/ sendErrors[o] > 0

IsPromiseFinished(o) == closureFlag[o]

\* !loggedWarning && Date.now() > logWarningAt
ShouldLogWarning_NoFlag(o, t) == t > logWarningAt[o]

ShouldLogWarning(o, t) == ~loggedWarning[o] /\ t > logWarningAt[o]

\* Date.now() > logErrorAt && Date.now() - lastLoggedErrorAt > 1000 * 60 * 10
ShouldLogError_NoSpacing(o, t) == t > logErrorAt[o]

ShouldLogError(o, t) ==
    t > logErrorAt[o] /\ t - lastLoggedErrorAt[o] > ERROR_REPEAT

\* options.timeout && Date.now() > options.timeout.getTime()
TimeoutReached_Never(o, t) == FALSE

TimeoutReached_OnePeriodEarly(o, t) ==
    options[o].timeout # None /\ t + TickPeriod > options[o].timeout

TimeoutReached_AtDeadline(o, t) == options[o].timeout # None /\ t >= options[o].timeout

TimeoutReached(o, t) == options[o].timeout # None /\ t > options[o].timeout

\* clearInterval(interval); resolve(); return
ClearAndResolve_EveryTimer(o) ==
    /\ interval' = [x \in AllOps |-> IF interval[x] = "active" THEN "cleared" ELSE interval[x]]
    /\ intervalFinished' = [intervalFinished EXCEPT ![o] = "resolved"]
    /\ resolvedAt' = [resolvedAt EXCEPT ![o] = now]

ClearAndResolve_ResolveOnly(o) ==
    /\ interval' = interval
    /\ intervalFinished' = [intervalFinished EXCEPT ![o] = "resolved"]
    /\ resolvedAt' = [resolvedAt EXCEPT ![o] = now]

ClearAndResolve(o) ==
    /\ interval' = [interval EXCEPT ![o] = "cleared"]
    /\ intervalFinished' = [intervalFinished EXCEPT ![o] = "resolved"]
    /\ resolvedAt' = [resolvedAt EXCEPT ![o] = now]

\* const response = await websocketPromise;
\* response.webSocket!.send("better-wait-until-ping " + count), inside the try
SendPing_GiveUpAfterError(o, n) ==
    IF sendErrors[o] > 0
    THEN UNCHANGED <<wsReactions, pings, sendErrors>>
    ELSE CASE wsPromise[o] = "pending" ->
              /\ wsReactions' = [wsReactions EXCEPT ![o] = Append(@, "tick")]
              /\ UNCHANGED <<pings, sendErrors>>
           [] wsPromise[o] = "resolved" /\ socket[o] = "open" ->
              /\ pings' = [pings EXCEPT ![o] = Append(@, n)]
              /\ UNCHANGED <<wsReactions, sendErrors>>
           [] OTHER ->
              /\ sendErrors' = [sendErrors EXCEPT ![o] = @ + 1]
              /\ UNCHANGED <<wsReactions, pings>>

SendPing(o, n) ==
    CASE wsPromise[o] = "pending" ->
         /\ wsReactions' = [wsReactions EXCEPT ![o] = Append(@, "tick")]
         /\ UNCHANGED <<pings, sendErrors>>
      [] wsPromise[o] = "resolved" /\ socket[o] = "open" ->
         /\ pings' = [pings EXCEPT ![o] = Append(@, n)]
         /\ UNCHANGED <<wsReactions, sendErrors>>
      [] OTHER ->
         /\ sendErrors' = [sendErrors EXCEPT ![o] = @ + 1]
         /\ UNCHANGED <<wsReactions, pings>>

\* one run of the setInterval callback, up to its return or its await
Tick(o) ==
    LET n == count[o] + 1
        warn == ShouldLogWarning(o, now)
        err == ShouldLogError(o, now)
        tout == TimeoutReached(o, now)
        lines == (IF warn THEN <<[kind |-> "warn", at |-> now]>> ELSE <<>>)
                 \o (IF err THEN <<[kind |-> "error", at |-> now]>> ELSE <<>>)
                 \o (IF tout THEN <<[kind |-> "timeout", at |-> now]>> ELSE <<>>)
    IN /\ interval[o] = "active"
       /\ now = nextTickAt[o]
       /\ count' = [count EXCEPT ![o] = n]
       /\ nextTickAt' = [nextTickAt EXCEPT ![o] = @ + TickPeriod]
       /\ IF IsPromiseFinished(o)
          THEN /\ ClearAndResolve(o)
               /\ UNCHANGED <<escalationVars, wsReactions, pings, sendErrors>>
          ELSE /\ loggedWarning' = [loggedWarning EXCEPT ![o] = @ \/ warn]
               /\ lastLoggedErrorAt' = [lastLoggedErrorAt EXCEPT ![o] = IF err THEN now ELSE @]
               /\ console' = [console EXCEPT ![o] = @ \o lines]
               /\ IF tout
                  THEN /\ ClearAndResolve(o)
                       /\ UNCHANGED <<wsReactions, pings, sendErrors>>
                  ELSE /\ SendPing(o, n)
                       /\ UNCHANGED <<interval, intervalFinished, resolvedAt>>
       /\ UNCHANGED <<now, instanceVars, callVars, promiseVars, wsPromise, socket,
                      upgrades, closes, openedAt, closedAt>>

\* ------------------------------------------------------------ the clock

TickDue(o) == interval[o] = "active" /\ now >= nextTickAt[o]

\* nothing is left that could still happen for operation o
Quiescent(o) ==
    \/ called[o] = "none"
    \/ /\ interval[o] # "active"
       /\ wsPromise[o] # "pending"
       /\ promiseState[o] # "pending"

\* ten seconds pass; the interval callbacks that are due run first
Advance ==
    /\ now < MaxTime
    /\ \E o \in AllOps : called[o] # "none"
    /\ \E o \in AllOps : ~Quiescent(o)
    /\ \A o \in AllOps : ~TickDue(o)
    /\ now' = now + 1
    /\ UNCHANGED <<instanceVars, callVars, promiseVars, channelVars, timerVars,
                   escalationVars>>

\* ten seconds pass in a run that lasts beyond an hour
AdvanceLong ==
    /\ now < MaxTimeLong
    /\ \E o \in AllOps : called[o] # "none"
    /\ \E o \in AllOps : ~Quiescent(o)
    /\ \A o \in AllOps : ~TickDue(o)
    /\ now' = now + 1
    /\ UNCHANGED <<instanceVars, callVars, promiseVars, channelVars, timerVars,
                   escalationVars>>

\* ten seconds pass in a short run
AdvanceShort ==
    /\ now < MaxTimeTwo
    /\ \E o \in AllOps : called[o] # "none"
    /\ \E o \in AllOps : ~Quiescent(o)
    /\ \A o \in AllOps : ~TickDue(o)
    /\ now' = now + 1
    /\ UNCHANGED <<instanceVars, callVars, promiseVars, channelVars, timerVars,
                   escalationVars>>

\* ------------------------------------------------------------ specification

\* the environment acts early in the run
InEventWindow == now <= StartTime + (MaxEventTicks * TickPeriod)

Next ==
    \/ \E o \in MainOps : WaitUntilCall(o)
    \/ \E o \in MainOps : \E opts \in OptionChoices : BetterWaitUntilCall(o, opts)
    \/ \E o \in MainOps : \E outcome \in {"fulfilled", "rejected"} :
          InEventWindow /\ Settle(o, outcome)
    \/ \E o \in MainOps : InEventWindow /\ HandshakeOk(o)
    \/ \E o \in MainOps : InEventWindow /\ HandshakeFail(o)
    \/ \E o \in MainOps : InEventWindow /\ SocketError(o)
    \/ \E o \in MainOps : Tick(o)
    \/ Advance

Spec == Init /\ [][Next]_vars

\* the timer keeps firing: time passes and a callback that is due runs
TimerFairness ==
    /\ WF_vars(Advance)
    /\ \A o \in MainOps : WF_vars(Tick(o))

SpecFair == Init /\ [][Next]_vars /\ TimerFairness

\* runs of more than an hour of callers that supply no escalation times
NextDefaults ==
    \/ \E o \in MainOps : WaitUntilCall(o)
    \/ \E o \in MainOps : \E opts \in DefaultEscalationChoices : BetterWaitUntilCall(o, opts)
    \/ \E o \in MainOps : \E outcome \in {"fulfilled", "rejected"} :
          InEventWindow /\ Settle(o, outcome)
    \/ \E o \in MainOps : InEventWindow /\ HandshakeOk(o)
    \/ \E o \in MainOps : InEventWindow /\ HandshakeFail(o)
    \/ \E o \in MainOps : InEventWindow /\ SocketError(o)
    \/ \E o \in MainOps : Tick(o)
    \/ AdvanceLong

SpecDefaults == Init /\ [][NextDefaults]_vars

\* two operations handed over in the same request and tracked on the same
\* instance, each by a call of its own
NextTwo ==
    \/ \E o \in AllOps : \E opts \in TwoOpsChoices :
          now = StartTime /\ BetterWaitUntilCall(o, opts)
    \/ \E o \in AllOps : \E outcome \in {"fulfilled", "rejected"} : Settle(o, outcome)
    \/ \E o \in AllOps : HandshakeOk(o)
    \/ \E o \in AllOps : HandshakeFail(o)
    \/ \E o \in AllOps : SocketError(o)
    \/ \E o \in AllOps : Tick(o)
    \/ AdvanceShort

SpecTwo == Init /\ [][NextTwo]_vars

\* the patched handlers of one instance, at one instant
NextPatch ==
    \/ \E o \in MainOps : WaitUntilCall(o)
    \/ WaitUntilCallRepatched
    \/ \E request \in Requests : \E acceptThrows \in BOOLEAN : Fetch(request, acceptThrows)
    \/ \E ws \in Connections : \E message \in Messages : WebSocketMessage(ws, message)
    \/ ConstructorUpdate

SpecPatch == InitPatch /\ [][NextPatch]_vars

\* the instances of one class in one isolate and what is delivered to them
NextClass ==
    \/ \E i \in Instances : Construct(i)
    \/ \E i \in Instances : \E request \in Requests : \E acceptThrows \in BOOLEAN :
          DeliverFetch(i, request, acceptThrows)
    \/ \E i \in Instances : \E message \in Messages : DeliverMessage(i, message)

SpecClass == InitPatch /\ [][NextClass]_vars

\* the agents of one class in one isolate, their connections and broadcasts
NextAgents ==
    \/ \E i \in Instances : ConstructAgent(i)
    \/ \E i \in Instances : \E c \in AgentConnections : AcceptConnection(i, c)
    \/ \E i \in Instances : \E c \in AgentConnections : OnConnect(i, c)
    \/ \E i \in Instances : \E without \in SUBSET {ConnectionId(i, "user")} :
          Broadcast(i, without)

SpecAgents == InitAgents /\ [][NextAgents]_vars

\* one operation tracked by the fetch-based variant
NextFetchVariant ==
    \/ \E opts \in FetchOptionChoices :
          \E settled \in {"pending", "fulfilled", "rejected"} : FetchVariantCall(opts, settled)
    \/ \E outcome \in {"fulfilled", "rejected"} : FetchVariantSettle(outcome)
    \/ \E fetchOk \in BOOLEAN : FetchVariantTick(fetchOk)
    \/ FetchVariantAdvance

\* the timer fires when it is due and time passes
FetchVariantFairness ==
    /\ WF_vars(FetchVariantAdvance)
    /\ WF_vars(\E fetchOk \in BOOLEAN : FetchVariantTick(fetchOk))

SpecFetchVariant == Init /\ [][NextFetchVariant]_vars /\ FetchVariantFairness

\* ------------------------------------------------------------ reading the records

Max(a, b) == IF a >= b THEN a ELSE b

\* the console records of one kind, in order
Logged(o, kind) == SelectSeq(console[o], LAMBDA r : r.kind = kind)

\* the promise of o settled while no supplied timeout had passed
SettledBeforeTimeout(o) ==
    /\ promiseState[o] # "pending"
    /\ options[o].timeout = None \/ finishedAt[o] <= options[o].timeout

\* ------------------------------------------------------------ claims

\* C1 as stated: for an operation that fulfils before any timeout, the channel
\* that was opened for it is closed at most one period after the fulfilment,
\* also when the handshake had not ended by then.
C1_ClosedWithinOnePeriod ==
    \A o \in AllOps :
        (promiseState[o] = "fulfilled" /\ SettledBeforeTimeout(o) /\ wsPromise[o] = "resolved")
            => (closedAt[o] # None /\ closedAt[o] <= finishedAt[o] + TickPeriod)

\* C1 amended: once a tracked operation has fulfilled and the handshake has
\* ended well, the socket is closed, by one close(), at the later of the two
\* moments: at the fulfilment itself when the handshake had ended by then.
C1_ClosedAtLaterOfSettleAndOpen ==
    \A o \in AllOps :
        (promiseState[o] = "fulfilled" /\ finalizer[o] /\ wsPromise[o] = "resolved")
            => /\ socket[o] = "closed"
               /\ closes[o] = 1
               /\ closedAt[o] = Max(finishedAt[o], openedAt[o])

C1_Witness ==
    \E o \in AllOps :
        /\ promiseState[o] = "fulfilled"
        /\ socket[o] = "closed"
        /\ openedAt[o] < finishedAt[o]
        /\ closedAt[o] = finishedAt[o]
        /\ Len(pings[o]) >= 2

\* C2: every run of the interval callback that finds the promise unsettled
\* and the timeout, if any, not passed goes on to the send (it sends, waits
\* for the handshake to send, or catches the error of the send) and leaves the
\* interval running, whether or not the warning or the error has been logged.
C2_HeartbeatOnEveryTick ==
    [][\A o \in AllOps :
          ( /\ count'[o] = count[o] + 1
            /\ ~closureFlag[o]
            /\ ~(options[o].timeout # None /\ now > options[o].timeout) )
          => /\ \/ pings'[o] = Append(pings[o], count'[o])
                \/ wsReactions'[o] = Append(wsReactions[o], "tick")
                \/ sendErrors'[o] = sendErrors[o] + 1
             /\ interval'[o] = "active"]_vars

C2_Witness ==
    \E o \in AllOps :
        /\ options[o].timeout = None
        /\ loggedWarning[o]
        /\ Len(Logged(o, "error")) >= 2
        /\ count[o] > ERROR_REPEAT
        /\ Len(pings[o]) = count[o]

\* C3 as stated: once the terminal timeout error is logged, no ping is sent
\* and no close() is called any more, even if the promise settles later.
C3_NoChannelActivityAfterTimeout ==
    [][\A o \in AllOps :
          Len(Logged(o, "timeout")) > 0
              => (pings'[o] = pings[o] /\ closes'[o] = closes[o])]_vars

\* C4 as stated: a call of the patched ctx.waitUntil calls the original
\* ctx.waitUntil exactly once, with the caller's promise itself, and starts
\* exactly one monitor.
C4_HostGetsThePromiseItself ==
    \A o \in AllOps :
        called[o] = "waitUntil"
            => (hostGot[o] = <<"promise">> /\ upgrades[o] = 1 /\ interval[o] # "none")

\* C5: what the original ctx.waitUntil received from the patched one does not
\* settle while the caller's promise is pending, and has settled one period
\* after the caller's promise settled, fulfilled or rejected.
C5_HostPromiseFollowsOperation ==
    \A o \in AllOps :
        hostGot[o] = <<"intervalFinished">>
            => /\ intervalFinished[o] = "resolved" => promiseState[o] # "pending"
               /\ promiseState[o] # "pending"
                    => IF intervalFinished[o] = "resolved"
                       THEN resolvedAt[o] <= finishedAt[o] + TickPeriod
                       ELSE now <= finishedAt[o] + TickPeriod

C5_Witness ==
    \E o \in AllOps :
        /\ hostGot[o] = <<"intervalFinished">>
        /\ promiseState[o] = "rejected"
        /\ intervalFinished[o] = "resolved"
        /\ count[o] >= 3

\* C6 as stated: a rejection is treated as a fulfilment is: the flag is set,
\* and the socket, once the handshake has ended well, is closed.
C6_RejectionClosesChannel ==
    \A o \in AllOps :
        (promiseState[o] = "rejected" /\ finalizer[o])
            => /\ closureFlag[o]
               /\ wsPromise[o] = "resolved" => socket[o] = "closed"

\* C7: on a host without ctx.exports, or without the entry of the class in
\* it, the call raises at once, and no upgrade request is made, no interval
\* started and no finally hook attached to the promise.
C7_ConfigurationErrorSetsNothingUp ==
    \A o \in AllOps :
        (called[o] # "none" /\ exportsCfg # "ok")
            => /\ raised[o]
               /\ upgrades[o] = 0
               /\ wsPromise[o] = "none"
               /\ interval[o] = "none"
               /\ intervalFinished[o] = "none"
               /\ ~finalizer[o]
               /\ ~closureFlag[o]
               /\ count[o] = 0

C7_Witness ==
    \E o \in AllOps :
        /\ raised[o]
        /\ exportsCfg = "noNamespace"
        /\ promiseState[o] = "fulfilled"
        /\ now > StartTime

\* C8 as stated: a call of the patched ctx.waitUntil never raises and always
\* hands something to the original ctx.waitUntil, on every host.
C8_PatchedWaitUntilNeverRaises ==
    \A o \in AllOps :
        called[o] = "waitUntil" => (~raised[o] /\ Len(hostGot[o]) = 1)

\* C9: at most one warning is logged for a tracked operation, and it is
\* logged at a time later than the warning threshold.
C9_WarningOnceAfterThreshold ==
    \A o \in AllOps :
        LET w == Logged(o, "warn")
        IN /\ Len(w) <= 1
           /\ \A i \in 1..Len(w) :
                 /\ w[i].at > logWarningAt[o]
                 /\ options[o].logWarningAfter # None => w[i].at > options[o].logWarningAfter

C9_Witness ==
    \E o \in AllOps :
        /\ Len(Logged(o, "warn")) = 1
        /\ interval[o] = "active"
        /\ count[o] >= Logged(o, "warn")[1].at - StartTime + 3

\* C10: every escalation error is logged at a time later than the error
\* threshold, and two consecutive ones are at least ten minutes apart.
C10_ErrorsAfterThresholdAndSpaced ==
    \A o \in AllOps :
        LET e == Logged(o, "error")
        IN /\ \A i \in 1..Len(e) :
                 /\ e[i].at > logErrorAt[o]
                 /\ options[o].logErrorAfter # None => e[i].at > options[o].logErrorAfter
           /\ \A i \in 1..(Len(e) - 1) : e[i + 1].at - e[i].at >= ERROR_REPEAT

C10_Witness ==
    \E o \in AllOps : Len(Logged(o, "error")) >= 2

\* the time of the first tick of o that is later than t (t at or after the call)
FirstTickLaterThan(o, t) ==
    start[o] + ((((t - start[o]) \div TickPeriod) + 1) * TickPeriod)

\* the last tick of o that ran so far
LastTickAt(o) == nextTickAt[o] - TickPeriod

\* every tick of o so far went through the escalation checks and left the
\* timer running: the operation is unfinished and no timeout ended the monitor
StillMonitoring(o) ==
    /\ called[o] # "none" /\ ~raised[o]
    /\ interval[o] = "active"
    /\ ~closureFlag[o]

\* C11: without logWarningAfter and logErrorAfter the warning is logged on the
\* first tick later than 15 minutes after the call and the first escalation
\* error on the first tick later than one hour after the call, as long as the
\* operation is unfinished and no timeout has ended the monitor: a logged
\* warning (error) carries exactly that tick's time, and once such a tick ran
\* the line is there
C11_DefaultThresholds ==
    \A o \in AllOps :
        (called[o] # "none" /\ ~raised[o]
            /\ options[o].logWarningAfter = None /\ options[o].logErrorAfter = None) =>
            /\ Logged(o, "warn") # <<>> =>
                   Logged(o, "warn")[1].at = FirstTickLaterThan(o, start[o] + WARN_OFFSET)
            /\ Logged(o, "error") # <<>> =>
                   Logged(o, "error")[1].at = FirstTickLaterThan(o, start[o] + ERROR_OFFSET)
            /\ (StillMonitoring(o) /\ LastTickAt(o) > start[o] + WARN_OFFSET) =>
                   Logged(o, "warn") # <<>>
            /\ (StillMonitoring(o) /\ LastTickAt(o) > start[o] + ERROR_OFFSET) =>
                   Logged(o, "error") # <<>>

\* an unfinished operation tracked with default thresholds for more than an
\* hour, with its warning and its first error logged
C11_Witness ==
    \E o \in AllOps :
        /\ StillMonitoring(o)
        /\ options[o].logWarningAfter = None /\ options[o].logErrorAfter = None
        /\ Logged(o, "warn") # <<>>
        /\ Logged(o, "error") # <<>>
        /\ Logged(o, "warn")[1].at = start[o] + WARN_OFFSET + TickPeriod
        /\ Logged(o, "error")[1].at = start[o] + ERROR_OFFSET + TickPeriod

\* C12: a supplied logWarningAfter (logErrorAfter) is the absolute time at which
\* escalation logging begins, with no further offset: once a tick of an
\* unfinished, not timed out monitor ran later than the supplied value, the
\* warning (the first escalation error) is logged
C12_SuppliedThresholdsTakenAsGiven ==
    \A o \in AllOps :
        (StillMonitoring(o) /\ count[o] >= 1) =>
            /\ (options[o].logWarningAfter # None
                    /\ LastTickAt(o) > options[o].logWarningAfter) =>
                   Logged(o, "warn") # <<>>
            /\ (options[o].logErrorAfter # None
                    /\ LastTickAt(o) > options[o].logErrorAfter) =>
                   Logged(o, "error") # <<>>

\* a request was handled by acceptKeepAliveWebSocket alone: its response comes
\* from there and the handler of the class never saw the request
HandledByCoordinator(f) ==
    /\ f.response \in {SwitchingProtocols, KeepAwakeError}
    /\ f.passed = <<>>
    /\ f.accepted = (IF f.response = SwitchingProtocols THEN 1 ELSE 0)

\* a request went to the handler the instance had before the patch, once and
\* as it came, and the answer is that handler's; 404 when there is no handler
DelegatedToPrePatch(f) ==
    /\ f.accepted = 0
    /\ IF prePatch.fetch
       THEN f.passed = <<f.request>> /\ f.response = UserResponse
       ELSE f.passed = <<>> /\ f.response = NotFound

C14_OtherPathsDelegated ==
    (fetched.request # <<>> /\ fetched.request.path # websocketPath /\ prePatch.fetch)
        => /\ fetched.accepted = 0
           /\ fetched.passed = <<fetched.request>>
           /\ fetched.response = UserResponse

\* C15: a message that begins with the ping tag is answered by the patched
\* handler with the fixed acknowledgement, once and on the connection it came
\* on, and the pre-patch handler is not called; for any other message the
\* handler sends nothing and calls the pre-patch handler (when the class has
\* one) exactly once with the same connection and message
C15_PingAnsweredOthersDelegated ==
    received.ws # "none" =>
        IF StartsWith(received.message, PingTag)
        THEN /\ received.sent = <<[ws |-> received.ws, data |-> <<"pong from server">>]>>
             /\ received.passed = <<>>
        ELSE /\ received.sent = <<>>
             /\ received.passed =
                    (IF prePatch.webSocketMessage
                     THEN <<[ws |-> received.ws, message |-> received.message]>>
                     ELSE <<>>)

\* a ping was answered on the keep-alive socket
C15_Witness ==
    /\ received.ws = "keepalive"
    /\ received.message = <<"better-wait-until-ping", " ", "1">>
    /\ Len(received.sent) = 1
    /\ received.passed = <<>>

\* C16: on an instance that was patched a second time, one ctx.waitUntil call
\* still opens exactly one heartbeat channel and starts exactly one monitor,
\* one ping is still answered by exactly one acknowledgement, and one request
\* to another path still reaches the handler of the class exactly once
C16_SecondPatchChangesNothing ==
    patches = 2 =>
        /\ (called[1] = "waitUntil" /\ ~raised[1]) =>
               /\ upgrades[1] + upgrades[2] = 1
               /\ Cardinality({o \in AllOps : interval[o] # "none"}) = 1
        /\ (received.ws # "none" /\ StartsWith(received.message, PingTag)) =>
               Len(received.sent) = 1
        /\ (fetched.request # <<>> /\ ~StartsWith(fetched.request.path, websocketPath)
                /\ prePatch.fetch) =>
               Len(fetched.passed) = 1

\* C17: a heartbeat send that fails is caught inside its tick: the step in
\* which it fails leaves the timer set and the monitor's promise as it was,
\* and a later tick of the unfinished, not timed out operation attempts a
\* heartbeat again (it sends, waits for the handshake, or fails once more);
\* the monitor's promise is never rejected
C17_SendFailureStaysInsideTick ==
    [][\A o \in AllOps :
          /\ sendErrors'[o] > sendErrors[o] =>
                 /\ interval'[o] = interval[o]
                 /\ intervalFinished'[o] = intervalFinished[o]
          /\ (count'[o] = count[o] + 1 /\ sendErrors[o] > 0 /\ ~closureFlag[o]
                 /\ ~(options[o].timeout # None /\ now > options[o].timeout)) =>
                 \/ sendErrors'[o] = sendErrors[o] + 1
                 \/ Len(pings'[o]) = Len(pings[o]) + 1
                 \/ Len(wsReactions'[o]) = Len(wsReactions[o]) + 1
          /\ intervalFinished'[o] \in {"none", "pending", "resolved"}]_vars

\* sends failed on two ticks and the timer is still set
C17_Witness ==
    \E o \in AllOps :
        /\ sendErrors[o] >= 2
        /\ socket[o] = "broken"
        /\ interval[o] = "active"
        /\ intervalFinished[o] = "pending"

\* C18: after a failed upgrade handshake a later tick opens a fresh channel:
\* at the end of the run, dozens of ticks after the failure, an operation that
\* is still unfinished and monitored is not left with the failed channel as
\* the only one that was ever opened
C18_FailedHandshakeReopened ==
    \A o \in AllOps :
        (StillMonitoring(o) /\ now = MaxTime) =>
            ~(wsPromise[o] = "rejected" /\ upgrades[o] = 1)

\* C20: when the timeout ends the monitor, the heartbeat channel of the
\* operation, if it was open by then, is closed at that same tick, the tick at
\* which the monitor's promise resolves
C20_TimeoutClosesChannel ==
    \A o \in AllOps :
        Logged(o, "timeout") # <<>> =>
            /\ intervalFinished[o] = "resolved"
            /\ resolvedAt[o] = Logged(o, "timeout")[1].at
            /\ (openedAt[o] # None /\ openedAt[o] <= resolvedAt[o]) =>
                   closedAt[o] = resolvedAt[o]

\* C21: within a tick the timeout check comes before the escalation checks:
\* the tick that logs the timeout error logs neither the warning nor an
\* escalation error
C21_TimeoutTickLogsOnlyTimeout ==
    \A o \in AllOps :
        \A i \in 1..Len(console[o]) :
            console[o][i].kind = "timeout" =>
                \A j \in 1..Len(console[o]) :
                    console[o][j].at = console[o][i].at => j = i

\* C22: no heartbeat is sent once the finished flag of the operation is true,
\* not even by a tick that began before the completion and was waiting for
\* the handshake when the operation completed
C22_NoPingOnceFinished ==
    [][\A o \in AllOps : closureFlag[o] => pings'[o] = pings[o]]_vars

\* the invocations of the interval callback of o that have begun and not yet
\* returned: those waiting on websocketPromise
TicksInProgress(o) == Len(SelectSeq(wsReactions[o], LAMBDA r : r = "tick"))

\* C23: the ticks of one operation are serialized: never are two invocations
\* of its timer callback in progress together, also not while the handshake
\* takes longer than one tick period
C23_TicksSerialized ==
    \A o \in AllOps : TicksInProgress(o) <= 1

\* C24: once the heartbeat channel of an operation is closed, no send is
\* attempted on it again: no ping goes out, no send fails and no tick waits
\* to send, whatever the order of completion, handshake and ticks; and the
\* step that closes the channel runs no send behind the close
C24_NoSendAfterClose ==
    [][\A o \in AllOps :
          /\ socket[o] = "closed" =>
                 /\ pings'[o] = pings[o]
                 /\ sendErrors'[o] = sendErrors[o]
                 /\ wsReactions'[o] = wsReactions[o]
                 /\ socket'[o] = "closed"
          /\ (socket[o] # "closed" /\ socket'[o] = "closed") =>
                 sendErrors'[o] = sendErrors[o]]_vars

\* the channel was closed after pings had been sent on it, and a tick ran
\* after the close
C24_Witness ==
    \E o \in AllOps :
        /\ socket[o] = "closed"
        /\ pings[o] # <<>>
        /\ resolvedAt[o] # None
        /\ closedAt[o] < resolvedAt[o]

\* C25: one call that tracks an operation issues exactly one upgrade request
\* to the instance over its whole lifetime, however many ticks run and
\* whatever becomes of the channel, so the operation never has more than one
\* channel
C25_OneUpgradePerOperation ==
    \A o \in AllOps :
        /\ upgrades[o] <= 1
        /\ (called[o] # "none" /\ ~raised[o]) => upgrades[o] = 1
        /\ wsPromise[o] # "none" => upgrades[o] = 1

\* many ticks ran, sends failed, and there still was one upgrade request only
C25_Witness ==
    \E o \in AllOps :
        /\ count[o] >= 10
        /\ sendErrors[o] >= 5
        /\ upgrades[o] = 1

\* C26: a tick that begins with the finished flag true clears the timer and
\* resolves in that same tick, and a tick begins only while the timer is set:
\* so at most one tick of an operation begins with the flag true and none
\* begins after it
C26_FinishedTickClearsTimer ==
    [][\A o \in AllOps :
          count'[o] # count[o] =>
              /\ count'[o] = count[o] + 1
              /\ interval[o] = "active"
              /\ closureFlag[o] =>
                     /\ interval'[o] = "cleared"
                     /\ intervalFinished'[o] = "resolved"]_vars

\* a tick found the operation finished and cleared the timer, no timeout involved
C26_Witness ==
    \E o \in AllOps :
        /\ closureFlag[o]
        /\ interval[o] = "cleared"
        /\ resolvedAt[o] # None
        /\ finishedAt[o] # None /\ finishedAt[o] < resolvedAt[o]
        /\ Logged(o, "timeout") = <<>>
        /\ count[o] >= 2

\* C27: while the timer keeps firing, a monitor whose operation has finished
\* or that has a timeout configured eventually clears its timer and resolves
\* its promise, also when the handshake never completes or every send fails
C27_MonitorTerminates ==
    \A o \in MainOps :
        (interval[o] = "active" /\ (closureFlag[o] \/ options[o].timeout # None))
            ~> (interval[o] = "cleared" /\ intervalFinished[o] = "resolved")

\* a monitor ended by its timeout although the handshake never completed
C27_Witness ==
    \E o \in MainOps :
        /\ interval[o] = "cleared"
        /\ intervalFinished[o] = "resolved"
        /\ options[o].timeout # None
        /\ ~closureFlag[o]
        /\ wsPromise[o] = "pending"
        /\ count[o] >= 3

\* C28: the timer of an operation is cleared and the monitor's promise
\* resolved only by a tick that finds the operation finished or the timeout
\* passed; a failed send, a failed handshake, a logged warning or error does
\* not stop the monitor
C28_OnlyFinishedOrTimeoutStops ==
    [][\A o \in AllOps :
          (\/ (interval[o] = "active" /\ interval'[o] # interval[o])
           \/ (intervalFinished[o] = "pending"
                  /\ intervalFinished'[o] # intervalFinished[o])) =>
              /\ count'[o] = count[o] + 1
              /\ (closureFlag[o] \/ (options[o].timeout # None /\ now > options[o].timeout))
              /\ interval'[o] = "cleared"
              /\ intervalFinished'[o] = "resolved"]_vars

\* the handshake failed, sends failed, the warning and an error were logged,
\* and the timer is still set
C28_Witness ==
    \E o \in AllOps :
        /\ interval[o] = "active"
        /\ intervalFinished[o] = "pending"
        /\ wsPromise[o] = "rejected"
        /\ sendErrors[o] >= 3
        /\ Logged(o, "warn") # <<>>
        /\ Logged(o, "error") # <<>>

\* what one betterAwait call holds in its closure, and its channel
OwnState(o) ==
    <<promiseState[o], closureFlag[o], interval[o], nextTickAt[o], count[o],
      intervalFinished[o], wsPromise[o], wsReactions[o], socket[o], upgrades[o],
      pings[o], sendErrors[o], closes[o]>>

\* C29: operations tracked together on one instance each have their own
\* flag, timer, counter and channel: a step that changes the state of one
\* (its completion, its timeout, its ticks, its channel) changes nothing of
\* the other, and a tick of an operation that is unfinished and not timed out
\* attempts its heartbeat and leaves its timer set, whatever became of the
\* other
C29_OperationsIndependent ==
    [][\A o \in AllOps : \A p \in AllOps \ {o} :
          /\ OwnState(o)' # OwnState(o) => OwnState(p)' = OwnState(p)
          /\ (count'[p] = count[p] + 1 /\ ~closureFlag[p]
                 /\ ~(options[p].timeout # None /\ now > options[p].timeout)) =>
                 /\ interval'[p] = "active"
                 /\ \/ Len(pings'[p]) = Len(pings[p]) + 1
                    \/ Len(wsReactions'[p]) = Len(wsReactions[p]) + 1
                    \/ sendErrors'[p] = sendErrors[p] + 1]_vars

\* one operation finished and its channel was closed, the other one sent a
\* ping on its own open channel at a later tick
C29_Witness ==
    \E o \in AllOps : \E p \in AllOps \ {o} :
        /\ interval[o] = "cleared" /\ socket[o] = "closed"
        /\ interval[p] = "active" /\ socket[p] = "open"
        /\ pings[p] # <<>>
        /\ pings[p][Len(pings[p])] = count[p]
        /\ LastTickAt(p) > resolvedAt[o]

\* C30: with several instances of the class instrumented, a request to
\* another path and a message without the ping tag reach the handler of the
\* class exactly once with the instance they were delivered to as receiver,
\* and a heartbeat upgrade is accepted on the context of the instance it was
\* delivered to, never on another one
C30_HandlersReachOwnInstance ==
    /\ (delivery.kind = "fetch" /\ prePatch.fetch
           /\ ~StartsWith(delivery.request.path, websocketPath)) =>
           delivery.receivers = <<delivery.to>>
    /\ (delivery.kind = "message" /\ prePatch.webSocketMessage
           /\ ~StartsWith(delivery.message, PingTag)) =>
           delivery.receivers = <<delivery.to>>
    /\ \A k \in 1..Len(delivery.acceptedOn) : delivery.acceptedOn[k] = delivery.to

\* an operation tracked without options has fulfilled and no tick ran yet
FulfilledBeforeFirstTick(o) ==
    /\ called[o] # "none" /\ ~raised[o]
    /\ options[o] = NoOptions
    /\ promiseState[o] = "fulfilled"
    /\ count[o] = 0

\* the first tick of an operation tracked without options has cleared the
\* timer: the operation had finished before it
ClearedByFirstTick(o) ==
    /\ options[o] = NoOptions
    /\ promiseState[o] = "fulfilled"
    /\ count[o] = 1
    /\ interval[o] = "cleared"

\* C31 as stated: an operation tracked without options that fulfils before
\* the first tick has one channel opened, no ping sent, nothing logged, and
\* its channel closed not later than the first tick, which clears the timer
C31_ClosedByFirstTick ==
    \A o \in AllOps :
        ClearedByFirstTick(o) =>
            /\ upgrades[o] = 1
            /\ pings[o] = <<>>
            /\ console[o] = <<>>
            /\ socket[o] = "closed"
            /\ closedAt[o] <= resolvedAt[o]

\* C31 amended: for an operation tracked without options that fulfils before
\* the first tick, one upgrade request is issued, no ping is ever sent,
\* nothing is logged and the first tick clears the timer and resolves; the
\* channel is closed at the later of the fulfilment and the end of the
\* handshake, once the handshake has ended well
C31_CompletesBeforeFirstTick ==
    /\ [](\A o \in AllOps :
            (FulfilledBeforeFirstTick(o) \/ ClearedByFirstTick(o)) =>
                /\ upgrades[o] = 1
                /\ pings[o] = <<>>
                /\ sendErrors[o] = 0
                /\ console[o] = <<>>
                /\ wsReactions[o] \in {<<>>, <<"close">>}
                /\ wsPromise[o] = "resolved" =>
                       /\ socket[o] = "closed"
                       /\ closes[o] = 1
                       /\ closedAt[o] = Max(finishedAt[o], openedAt[o]))
    /\ [][\A o \in AllOps :
            (FulfilledBeforeFirstTick(o) /\ count'[o] = 1) =>
                /\ interval'[o] = "cleared"
                /\ intervalFinished'[o] = "resolved"]_vars

\* the operation fulfilled within the first period with the handshake done:
\* the channel was closed at the fulfilment and the first tick cleared the timer
C31_Witness ==
    \E o \in AllOps :
        /\ ClearedByFirstTick(o)
        /\ intervalFinished[o] = "resolved"
        /\ socket[o] = "closed"
        /\ closedAt[o] = finishedAt[o]
        /\ pings[o] = <<>>
        /\ upgrades[o] = 1

\* an operation that has not settled, tracked with a timeout, whose channel
\* was open from the call on and has not dropped
UnfinishedWithTimeoutAndChannel(o) ==
    /\ called[o] # "none" /\ ~raised[o]
    /\ options[o].timeout # None
    /\ promiseState[o] = "pending"
    /\ openedAt[o] = start[o]
    /\ socket[o] = "open"

\* C32 as stated: with a timeout of three tick periods after the call and an
\* operation that never finishes, the first and second ticks send the only
\* two pings and the third tick logs the timeout, clears the timer and resolves
C32_TwoPingsThenTimeout ==
    \A o \in AllOps :
        (UnfinishedWithTimeoutAndChannel(o)
            /\ options[o].timeout = start[o] + (3 * TickPeriod)
            /\ count[o] >= 3) =>
            /\ pings[o] = <<1, 2>>
            /\ Logged(o, "timeout") # <<>>
            /\ interval[o] = "cleared"
            /\ intervalFinished[o] = "resolved"
            /\ resolvedAt[o] = start[o] + (3 * TickPeriod)

\* C32 amended: the terminal tick is the first tick whose time is later than
\* the timeout; every tick before it sends one ping with its own number, the
\* terminal tick sends none, logs the timeout error once, clears the timer and
\* resolves. A timeout of exactly three periods is not passed at the third
\* tick, which pings; the fourth tick is the terminal one
C32_PingsUntilFirstTickPastTimeout ==
    \A o \in AllOps :
        UnfinishedWithTimeoutAndChannel(o) =>
            IF interval[o] = "active"
            THEN /\ pings[o] = [k \in 1..count[o] |-> k]
                 /\ count[o] >= 1 => LastTickAt(o) <= options[o].timeout
                 /\ Logged(o, "timeout") = <<>>
                 /\ intervalFinished[o] = "pending"
            ELSE /\ resolvedAt[o] = FirstTickLaterThan(o, options[o].timeout)
                 /\ LastTickAt(o) = resolvedAt[o]
                 /\ pings[o] = [k \in 1..(count[o] - 1) |-> k]
                 /\ Logged(o, "timeout") = <<[kind |-> "timeout", at |-> resolvedAt[o]]>>
                 /\ intervalFinished[o] = "resolved"

\* a timeout of three periods: three pings went out and the fourth tick was
\* the terminal one
C32_Witness ==
    \E o \in AllOps :
        /\ UnfinishedWithTimeoutAndChannel(o)
        /\ options[o].timeout = start[o] + (3 * TickPeriod)
        /\ interval[o] = "cleared"
        /\ pings[o] = <<1, 2, 3>>
        /\ resolvedAt[o] = start[o] + (4 * TickPeriod)

\* C33: the channel is opened lazily: no upgrade request has been issued
\* while no tick has run, and an operation already finished at its first tick
\* never has one issued
C33_OpenedLazily ==
    \A o \in AllOps :
        /\ count[o] = 0 => upgrades[o] = 0
        /\ ClearedByFirstTick(o) => upgrades[o] = 0

\* C34: the counters of the pings sent for one operation are strictly
\* increasing, in the order in which the pings were sent
C34_PingCountersIncrease ==
    \A o \in AllOps :
        \A i, j \in DOMAIN pings[o] : i < j => pings[o][i] < pings[o][j]

\* C35: a broadcast of a KeepAlive agent reaches just the connections of
\* that agent that are not the keep-alive socket and that the caller did not
\* exclude, also with several agents of the class, and super.onConnect is
\* not run for the keep-alive socket
C35_BroadcastReachesOwnClients ==
    /\ agent.broadcast.on # 0 =>
          agent.broadcast.reached =
             {<<agent.broadcast.on, c>> : c \in
                 {d \in agent.broadcast.held :
                      /\ d # "keepalive"
                      /\ ConnectionId(agent.broadcast.on, d) \notin agent.broadcast.without}}
    /\ agent.connected.connection = "keepalive" => ~agent.connected.ran

\* C36: in the fetch-based variant, once the tracked promise has settled,
\* intervalFinished resolves in the end, and no no-op fetch is started after
\* the promise has settled
C36_SettledThenIntervalFinished ==
    /\ (legacy.called /\ ~legacy.raised /\ legacy.promiseState # "pending")
          ~> (legacy.intervalFinished = "resolved")
    /\ [](\A k \in DOMAIN legacy.fetches :
             legacy.finishedAt = None \/ legacy.fetches[k] <= legacy.finishedAt)

\* C37: when the accept step of a keep-alive request raises, the patched
\* fetch returns the response with status 500 of acceptKeepAliveWebSocket:
\* nothing is raised to the caller, no socket is accepted and the request is
\* not passed to the pre-patch handler
C37_AcceptFailureGives500 ==
    fetched.acceptThrew =>
        /\ IsKeepAliveRequest(fetched.request)
        /\ fetched.response = KeepAwakeError
        /\ fetched.response.status = 500
        /\ fetched.accepted = 0
        /\ fetched.passed = <<>>

\* the accept step raised in an instance that was patched twice and whose
\* class has a fetch handler
C37_Witness ==
    /\ fetched.acceptThrew
    /\ fetched.response = KeepAwakeError
    /\ patches = 2
    /\ prePatch.fetch

====
